---- MODULE Spec2Model ----
(***************************************************************************)
(* Model of src/floating-gallery.js: the FloatingGallery widget.           *)
(*                                                                         *)
(* Numbers.  Base positions, velocities, pointer and viewport sizes are    *)
(* whole pixels.  A rendered position (finalX, finalY) is a fixed-point    *)
(* number in units of 1/Scale pixel; the magnitude of an offset is rounded *)
(* up, so that an offset that is non-zero as a double is never modelled as *)
(* zero.  NaN is the IEEE value 0/0 produces; it is kept apart from every  *)
(* number.  Rotations are in hundredths of a degree.                       *)
(*                                                                         *)
(* A second gallery state (photosT, mouseXT, mouseYT, scrollYT) is the     *)
(* same widget started from the same particles and fed the same frame,     *)
(* resize and control events, but its own pointer and scroll events; it    *)
(* is what the non-interference property compares against.                 *)
(***************************************************************************)
EXTENDS Integers, Sequences, FiniteSets

VARIABLES
    images,           \* config.images
    count,            \* config.count
    opacity,          \* config.opacity (percent)
    blur,             \* config.blur (px)
    W, H,             \* window.innerWidth, window.innerHeight
    isMobile,         \* this.isMobile
    mouseTracking,    \* TRUE: the mousemove listener is installed, FALSE: the scroll listener
    mouseX, mouseY,   \* this.mouseX, this.mouseY
    scrollY,          \* this.scrollY
    photos,           \* this.photos
    rafId,            \* this.rafId
    rafCounter,       \* the browser's animation-frame handle counter
    pending,          \* handles of the frame callbacks requested and neither run nor cancelled
    attached,         \* galleryContainer is in the document
    resizeListeners,  \* the functions registered on window for 'resize'
    resized,          \* history: the window was resized since the last animate pass
    lastPass,         \* history: per photo and axis, what the last animate pass saw and did
    restarted,        \* history: the last animate pass was run by resume()
    photosT, mouseXT, mouseYT, scrollYT   \* the second run

vars == <<images, count, opacity, blur, W, H, isMobile, mouseTracking, mouseX, mouseY,
          scrollY, photos, rafId, rafCounter, pending, attached, resizeListeners,
          resized, lastPass, restarted, photosT, mouseXT, mouseYT, scrollYT>>

configVars == <<images, count>>
styleVars  == <<opacity, blur>>
windowVars == <<W, H>>
inputVars  == <<mouseX, mouseY, scrollY>>
inputVarsT == <<mouseXT, mouseYT, scrollYT>>
loopVars   == <<rafId, rafCounter, pending>>

----------------------------------------------------------------------------
(* Bounds of the model *)

\* animate passes (equivalently requestAnimationFrame calls) explored
MaxFrames == 3

----------------------------------------------------------------------------
(* Program constants *)

Null == 0                       \* this.rafId = null; `if (this.rafId)` treats null and 0 alike
DefaultCount == 6
DefaultOpacity == 25
DefaultBlur == 1
driftSpeed == 60                \* options.driftSpeed, px per frame
mouseInfluence == 50            \* config.mouseInfluence, in thousandths (0.05)
mobileScrollInfluence == 20     \* config.mobileScrollInfluence, in thousandths (0.02)
MobileMaxWidth == 768
margin == 50
maxDistance == 300
InfluenceGain == 30             \* (1 - distance / maxDistance) * 30
ScrollGain == 20                \* Math.sin(...) * 20
CreateMargin == 100             \* margins.top/bottom/left/right
centerExclusionRadius == 200
Scale == 10                     \* fixed-point units per pixel of a rendered position
NaN == 0 - 1073741824           \* stands for the double NaN; no position reaches it

Max(a, b) == IF a >= b THEN a ELSE b
Min(a, b) == IF a <= b THEN a ELSE b
Abs(a) == IF a < 0 THEN 0 - a ELSE a
Sign(a) == IF a < 0 THEN 0 - 1 ELSE IF a > 0 THEN 1 ELSE 0
CeilDiv(a, b) == (a + b - 1) \div b

RECURSIVE SqrtSearch(_, _, _)
SqrtSearch(n, lo, hi) ==
    IF lo >= hi THEN lo
    ELSE LET mid == (lo + hi + 1) \div 2
         IN  IF mid * mid <= n THEN SqrtSearch(n, mid, hi) ELSE SqrtSearch(n, lo, mid - 1)

\* Math.sqrt(dx * dx + dy * dy), in 1/Scale px, rounded down
Distance(dx, dy) == SqrtSearch((dx * dx + dy * dy) * Scale * Scale, 0, Min(46340, (Abs(dx) + Abs(dy)) * Scale))

\* Math.sin of an angle given in hundredths of a radian, in thousandths
\* (Bhaskara's rational approximation on each half period, pi = 3.14)
SinMilli(c) ==
    LET r == c % 628
        h == IF r < 314 THEN r ELSE r - 314
        v == (16 * h * (314 - h) * 1000) \div (5 * 314 * 314 - 4 * h * (314 - h))
    IN  IF r < 314 THEN v ELSE 0 - v

\* window.matchMedia('(max-width: 768px)').matches
MatchesMobile(w) == w <= MobileMaxWidth

----------------------------------------------------------------------------
(* Inputs *)

\* (innerWidth, innerHeight) of the window
Viewports == { <<1000, 800>>, <<600, 800>>, <<80, 800>> }

\* options.images and options.count (0: not given)
Configs == { [images |-> << >>,                 count |-> 0],
             [images |-> <<"a.jpg">>,           count |-> 3],
             [images |-> <<"a.jpg", "b.jpg">>,  count |-> 1],
             [images |-> <<"a.jpg", "b.jpg">>,  count |-> 0] }

\* Outcomes of the Math.random() calls of one createPhoto: the position, the
\* velocity (Math.cos(angle) * speed, Math.sin(angle) * speed) and the rotation
SeedA == [x |-> 480, y |-> 100, vx |-> 20,     vy |-> 0 - 56, rotation |-> 500,      rotationSpeed |-> 0 - 10]
SeedB == [x |-> 120, y |-> 660, vx |-> 0 - 30, vy |-> 40,     rotation |-> 0 - 1000, rotationSpeed |-> 7]
Seeds == { SeedA, SeedB }

\* The draws of the successive createPhoto calls of one construction
SeedLists == { <<SeedA, SeedB>>, <<SeedB, SeedA>> }

\* Outcomes of the two Math.random() calls of handleResize for one photo, in tenths
RandomDraws == { <<0, 9>> }

\* Where mousemove events put the pointer, relative to the place a particle is drawn
\* at next (on it, just inside 300 px and exactly at 300 px)
PointerGaps == { <<0, 0>>, <<180, 0 - 239>>, <<180, 0 - 240>> }

ScrollOffsets == { 0, 157 }
Opacities == { 80 }
Blurs == { 3 }

----------------------------------------------------------------------------
(* createPhotos, createPhoto *)

isInCenterZone(x, y, radius, w, h) ==
    \* distance < radius with centerX = w / 2, centerY = h / 2, both sides doubled and squared
    (2 * x - w) * (2 * x - w) + (2 * y - h) * (2 * y - h) < 4 * radius * radius

\* the draws createPhoto can make in a w x h window: the do-while loop ends only
\* on a position outside the centre zone
ValidSeeds(w, h) ==
    { s \in Seeds :
        /\ w > 2 * CreateMargin /\ h > 2 * CreateMargin
        /\ s.x >= CreateMargin /\ s.x < w - CreateMargin
        /\ s.y >= CreateMargin /\ s.y < h - CreateMargin
        /\ ~isInCenterZone(s.x, s.y, centerExclusionRadius, w, h)
        \* speed = driftSpeed * (0.5 + Math.random() * 0.5)
        /\ 4 * (s.vx * s.vx + s.vy * s.vy) >= driftSpeed * driftSpeed
        /\ s.vx * s.vx + s.vy * s.vy < driftSpeed * driftSpeed
        /\ s.rotation >= 0 - 1000 /\ s.rotation < 1000
        /\ s.rotationSpeed >= 0 - 10 /\ s.rotationSpeed < 10 }

createPhoto(index, s, imgs, op, bl) ==
    [ img           |-> imgs[(index % Len(imgs)) + 1],
      baseX         |-> s.x,
      baseY         |-> s.y,
      velocityX     |-> s.vx,
      velocityY     |-> s.vy,
      rotation      |-> s.rotation,
      rotationSpeed |-> s.rotationSpeed,
      finalX        |-> 0,
      finalY        |-> 0,
      opacity       |-> op,
      blur          |-> bl ]

ImageCountOffByOne(cnt, imgs) == Min(cnt, Len(imgs) - 1)
\* const imageCount = Math.min(this.config.count, this.config.images.length)
ImageCount(cnt, imgs) == Min(cnt, Len(imgs))

\* the list this.photos after the for loop, given the draws of each createPhoto
createPhotos(cnt, imgs, seeds, op, bl) ==
    [ i \in 1..Max(0, ImageCount(cnt, imgs)) |-> createPhoto(i - 1, seeds[i], imgs, op, bl) ]

----------------------------------------------------------------------------
(* animate: the per-photo body of the forEach *)

BounceNoClamp(pos, vel, dim) ==
    LET adv == pos + vel
        out == adv < margin \/ adv > dim - margin
    IN  [ out |-> out, vel |-> IF out THEN 0 - vel ELSE vel, pos |-> adv ]

BounceNoFlip(pos, vel, dim) ==
    LET adv == pos + vel
        out == adv < margin \/ adv > dim - margin
    IN  [ out |-> out,
          vel |-> vel,
          pos |-> IF out THEN Max(margin, Min(dim - margin, adv)) ELSE adv ]

\* one axis of lines 148-161: advance, then flip and clamp when outside
Bounce(pos, vel, dim) ==
    LET adv == pos + vel
        out == adv < margin \/ adv > dim - margin
    IN  [ out |-> out,
          vel |-> IF out THEN 0 - vel ELSE vel,
          pos |-> IF out THEN Max(margin, Min(dim - margin, adv)) ELSE adv ]

\* the fixed-point units cancel: (mouseInfluence / 1000) * 100 * Scale
PerMilleTimes100 == (100 * Scale) \div 1000

MouseOffsetToward(dc, dist) ==
    IF dist >= maxDistance * Scale THEN 0
    ELSE IF dist = 0 THEN NaN
    ELSE (0 - Sign(dc)) * CeilDiv(Abs(dc) * (maxDistance * Scale - dist) * InfluenceGain * mouseInfluence
                                * PerMilleTimes100, maxDistance * dist)

\* lines 173-177, one axis: (dc / distance) * influence * mouseInfluence * 100 when
\* distance < maxDistance, else nothing is added; influence = (1 - distance / maxDistance) * 30.
\* dist is in 1/Scale px and so is the result.
MouseOffset(dc, dist) ==
    IF dist >= maxDistance * Scale THEN 0
    ELSE IF dist = 0 THEN NaN   \* 0 / 0
    ELSE Sign(dc) * CeilDiv(Abs(dc) * (maxDistance * Scale - dist) * InfluenceGain * mouseInfluence
                                * PerMilleTimes100, maxDistance * dist)

\* lines 180-181: Math.sin(scrollY * 0.01 + index) * 20 * mobileScrollInfluence * 100, in 1/Scale px
ScrollOffset(sy, index) ==
    LET s == SinMilli(sy + 100 * index)
    IN  Sign(s) * ((Abs(s) * ScrollGain * mobileScrollInfluence * PerMilleTimes100) \div 1000)

\* a particle's drift state: what animate carries from one pass to the next
DriftOf(photo) == [photo EXCEPT !.finalX = 0, !.finalY = 0]

AddOffset(base, off) == IF off = NaN THEN NaN ELSE base * Scale + off

AnimatePhotoWriteBack(photo, index, w, h, mobile, mx, my, sy) ==
    LET bx == Bounce(photo.baseX, photo.velocityX, w)
        by == Bounce(photo.baseY, photo.velocityY, h)
        dx == bx.pos - mx
        dy == by.pos - my
        distance == Distance(dx, dy)
        fx == IF ~mobile THEN AddOffset(bx.pos, MouseOffset(dx, distance)) ELSE bx.pos * Scale
        fy == IF ~mobile THEN AddOffset(by.pos, MouseOffset(dy, distance))
              ELSE by.pos * Scale + ScrollOffset(sy, index)
    IN  [ photo EXCEPT
            !.baseX = IF fx = NaN THEN bx.pos ELSE fx \div Scale,
            !.baseY = IF fy = NaN THEN by.pos ELSE fy \div Scale,
            !.velocityX = bx.vel,
            !.velocityY = by.vel,
            !.rotation = photo.rotation + photo.rotationSpeed,
            !.finalX = fx,
            !.finalY = fy ]

\* lines 146-190, for one photo (index is 0-based)
AnimatePhoto(photo, index, w, h, mobile, mx, my, sy) ==
    LET bx == Bounce(photo.baseX, photo.velocityX, w)
        by == Bounce(photo.baseY, photo.velocityY, h)
        dx == bx.pos - mx
        dy == by.pos - my
        distance == Distance(dx, dy)
    IN  [ photo EXCEPT
            !.baseX = bx.pos,
            !.baseY = by.pos,
            !.velocityX = bx.vel,
            !.velocityY = by.vel,
            !.rotation = photo.rotation + photo.rotationSpeed,
            !.finalX = IF ~mobile THEN AddOffset(bx.pos, MouseOffset(dx, distance))
                       ELSE bx.pos * Scale,
            !.finalY = IF ~mobile THEN AddOffset(by.pos, MouseOffset(dy, distance))
                       ELSE by.pos * Scale + ScrollOffset(sy, index) ]

\* what the pass over ps does on each axis: the advanced coordinate (before the
\* clamp), the velocity it came with and whether the bounce branch was taken
AxisPass(pos, vel, dim) == [ adv |-> pos + vel, vel |-> vel, out |-> Bounce(pos, vel, dim).out ]

PassOf(ps, w, h) ==
    [ i \in DOMAIN ps |-> [ x |-> AxisPass(ps[i].baseX, ps[i].velocityX, w),
                            y |-> AxisPass(ps[i].baseY, ps[i].velocityY, h) ] ]

\* this.photos after the forEach of one animate pass (index is 0-based)
AnimateAll(ps, w, h, mobile, mx, my, sy) ==
    [ i \in DOMAIN ps |-> AnimatePhoto(ps[i], i - 1, w, h, mobile, mx, my, sy) ]

----------------------------------------------------------------------------
(* The state after `new FloatingGallery(options)` *)

Init ==
    \E cfg \in Configs, vp \in Viewports :
        /\ images = cfg.images
        /\ count = (IF cfg.count = 0 THEN DefaultCount ELSE cfg.count)
        /\ opacity = DefaultOpacity
        /\ blur = DefaultBlur
        /\ W = vp[1]
        /\ H = vp[2]
        /\ isMobile = MatchesMobile(vp[1])
        /\ mouseTracking = ~MatchesMobile(vp[1])
        /\ mouseX = vp[1] \div 2
        /\ mouseY = vp[2] \div 2
        /\ scrollY = 0
        /\ mouseXT = vp[1] \div 2
        /\ mouseYT = vp[2] \div 2
        /\ scrollYT = 0
        \* init(): createPhotos(), then the first animate()
        /\ \E seeds \in SeedLists :
              /\ \A i \in 1..Max(0, ImageCount(count, images)) : seeds[i] \in ValidSeeds(vp[1], vp[2])
              /\ photos = AnimateAll(createPhotos(count, images, seeds, opacity, blur),
                                     W, H, isMobile, mouseX, mouseY, scrollY)
              /\ photosT = [ i \in DOMAIN photos |-> DriftOf(photos[i]) ]
              /\ lastPass = PassOf(createPhotos(count, images, seeds, opacity, blur), W, H)
        /\ rafCounter = 1
        /\ rafId = 1
        /\ pending = {1}
        /\ attached = TRUE
        /\ resizeListeners = {"() => this.handleResize()"}
        /\ resized = FALSE
        /\ restarted = FALSE

----------------------------------------------------------------------------
(* animate, in both runs; `live` is the set of callbacks pending when it is entered *)

animate(live) ==
    /\ rafCounter < MaxFrames
    /\ photos' = AnimateAll(photos, W, H, isMobile, mouseX, mouseY, scrollY)
    /\ photosT' = [ i \in DOMAIN photosT |->
                      DriftOf(AnimateAll(photosT, W, H, isMobile, mouseXT, mouseYT, scrollYT)[i]) ]
    \* this.rafId = requestAnimationFrame(() => this.animate())
    /\ rafCounter' = rafCounter + 1
    /\ rafId' = rafCounter + 1
    /\ pending' = live \cup {rafCounter + 1}
    /\ resized' = FALSE
    /\ lastPass' = PassOf(photos, W, H)

\* the browser runs a pending frame callback
Frame ==
    \E id \in pending :
        /\ animate(pending \ {id})
        /\ restarted' = FALSE
        /\ UNCHANGED <<configVars, styleVars, windowVars, isMobile, mouseTracking,
                       inputVars, inputVarsT, attached, resizeListeners>>

pauseNoCancel ==
    /\ IF rafId # Null
          THEN rafId' = Null /\ pending' = pending
          ELSE UNCHANGED <<rafId, pending>>
    /\ UNCHANGED <<configVars, styleVars, windowVars, isMobile, mouseTracking, inputVars,
                   inputVarsT, photos, photosT, rafCounter, attached, resizeListeners, resized, lastPass, restarted>>

pause ==
    /\ IF rafId # Null
          THEN /\ pending' = pending \ {rafId}     \* cancelAnimationFrame(this.rafId)
               /\ rafId' = Null
          ELSE UNCHANGED <<rafId, pending>>
    /\ UNCHANGED <<configVars, styleVars, windowVars, isMobile, mouseTracking, inputVars,
                   inputVarsT, photos, photosT, rafCounter, attached, resizeListeners, resized, lastPass, restarted>>

resumeNoGuard ==
    /\ animate(pending)
    /\ restarted' = TRUE
    /\ UNCHANGED <<configVars, styleVars, windowVars, isMobile, mouseTracking,
                   inputVars, inputVarsT, attached, resizeListeners>>

resume ==
    /\ IF rafId = Null
          THEN animate(pending) /\ restarted' = TRUE
          ELSE UNCHANGED <<photos, photosT, loopVars, resized, lastPass, restarted>>
    /\ UNCHANGED <<configVars, styleVars, windowVars, isMobile, mouseTracking,
                   inputVars, inputVarsT, attached, resizeListeners>>

destroy ==
    /\ IF rafId # Null
          THEN pending' = pending \ {rafId}        \* cancelAnimationFrame(this.rafId)
          ELSE pending' = pending
    /\ attached' = FALSE                           \* this.galleryContainer.remove()
    \* removeEventListener is given the method, which was never registered
    /\ resizeListeners' = resizeListeners \ {"this.handleResize"}
    /\ UNCHANGED <<configVars, styleVars, windowVars, isMobile, mouseTracking, inputVars,
                   inputVarsT, photos, photosT, rafId, rafCounter, resized, lastPass, restarted>>

updateOpacity ==
    \E o \in Opacities \cup {DefaultOpacity} :
        /\ opacity' = o
        /\ photos' = [ i \in DOMAIN photos |-> [photos[i] EXCEPT !.opacity = o] ]
        /\ photosT' = [ i \in DOMAIN photosT |-> [photosT[i] EXCEPT !.opacity = o] ]
        /\ UNCHANGED <<configVars, blur, windowVars, isMobile, mouseTracking, inputVars,
                       inputVarsT, loopVars, attached, resizeListeners, resized, lastPass, restarted>>

updateBlur ==
    \E b \in Blurs \cup {DefaultBlur} :
        /\ blur' = b
        /\ photos' = [ i \in DOMAIN photos |-> [photos[i] EXCEPT !.blur = b] ]
        /\ photosT' = [ i \in DOMAIN photosT |-> [photosT[i] EXCEPT !.blur = b] ]
        /\ UNCHANGED <<configVars, opacity, windowVars, isMobile, mouseTracking, inputVars,
                       inputVarsT, loopVars, attached, resizeListeners, resized, lastPass, restarted>>

----------------------------------------------------------------------------
(* Browser events *)

\* the (clientX, clientY) a mousemove event can carry in a w x h window
PointerTargets(ps, w, h) ==
    { pt \in { <<Bounce(ps[i].baseX, ps[i].velocityX, w).pos - g[1],
                 Bounce(ps[i].baseY, ps[i].velocityY, h).pos - g[2]>> :
                 i \in DOMAIN ps, g \in PointerGaps } :
        pt[1] >= 0 /\ pt[1] < w /\ pt[2] >= 0 /\ pt[2] < h }

\* the mousemove listener of setupMouseTracking
MouseMove ==
    /\ mouseTracking
    /\ \E pt \in PointerTargets(photos, W, H) :
          /\ mouseX' = pt[1]
          /\ mouseY' = pt[2]
    /\ UNCHANGED <<configVars, styleVars, windowVars, isMobile, mouseTracking, scrollY,
                   inputVarsT, photos, photosT, loopVars, attached, resizeListeners, resized, lastPass, restarted>>

\* the scroll listener of setupScrollTracking
Scroll ==
    /\ ~mouseTracking
    /\ \E sy \in ScrollOffsets : scrollY' = sy
    /\ UNCHANGED <<configVars, styleVars, windowVars, isMobile, mouseTracking, mouseX, mouseY,
                   inputVarsT, photos, photosT, loopVars, attached, resizeListeners, resized, lastPass, restarted>>

\* Math.random() * dim, the draw given in tenths
RandomTimes(draw, dim) == (draw * dim) \div 10

Reposition(ps, w, h, draws) ==
    [ i \in DOMAIN ps |-> [ps[i] EXCEPT !.baseX = RandomTimes(draws[i][1], w),
                                        !.baseY = RandomTimes(draws[i][2], h)] ]

\* handleResize() in a window that is now w x h; both runs see the same draws
handleResize(w, h, draws) ==
    /\ isMobile' = MatchesMobile(w)
    /\ IF isMobile # MatchesMobile(w)
          THEN /\ photos' = Reposition(photos, w, h, draws)
               /\ photosT' = Reposition(photosT, w, h, draws)
          ELSE UNCHANGED <<photos, photosT>>

\* the window is resized and the browser calls the registered 'resize' listeners
Resize ==
    \E vp \in Viewports \ {<<W, H>>}, draws \in [DOMAIN photos -> RandomDraws] :
        /\ W' = vp[1]
        /\ H' = vp[2]
        /\ IF "() => this.handleResize()" \in resizeListeners
              THEN handleResize(vp[1], vp[2], draws)
              ELSE UNCHANGED <<isMobile, photos, photosT>>
        /\ resized' = TRUE
        /\ UNCHANGED <<configVars, styleVars, mouseTracking, inputVars, inputVarsT,
                       loopVars, attached, resizeListeners, lastPass, restarted>>

\* pointer and scroll events of the second run
MouseMoveT ==
    /\ mouseTracking
    /\ \E pt \in PointerTargets(photosT, W, H) :
          /\ mouseXT' = pt[1]
          /\ mouseYT' = pt[2]
    /\ UNCHANGED <<configVars, styleVars, windowVars, isMobile, mouseTracking, inputVars, scrollYT,
                   photos, photosT, loopVars, attached, resizeListeners, resized, lastPass, restarted>>

ScrollT ==
    /\ ~mouseTracking
    /\ \E sy \in ScrollOffsets : scrollYT' = sy
    /\ UNCHANGED <<configVars, styleVars, windowVars, isMobile, mouseTracking, inputVars, mouseXT,
                   mouseYT, photos, photosT, loopVars, attached, resizeListeners, resized, lastPass, restarted>>

----------------------------------------------------------------------------

Next ==
    \/ Frame
    \/ pause
    \/ resume
    \/ destroy
    \/ updateOpacity
    \/ updateBlur
    \/ MouseMove
    \/ Scroll
    \/ Resize

Spec == Init /\ [][Next]_vars

NextTwin ==
    \/ Frame
    \/ Resize
    \/ MouseMove
    \/ Scroll
    \/ MouseMoveT
    \/ ScrollT

SpecTwin == Init /\ [][NextTwin]_vars

----------------------------------------------------------------------------
(* Properties *)

\* a step that runs an animate pass (every pass requests one frame)
AnimateStep == rafCounter' # rafCounter

InRange(pos, dim) == margin <= pos /\ pos <= dim - margin

\* C1 as stated: at the end of every animate pass, in a window of any size, every
\* particle's base position lies in [margin, innerWidth - margin] x
\* [margin, innerHeight - margin].
C1_ClampAnyViewport ==
    ~resized => \A i \in DOMAIN photos :
                    InRange(photos[i].baseX, W) /\ InRange(photos[i].baseY, H)

\* C1 amended: the same, in windows at least 2 * margin wide and high.
C1_Clamp ==
    (~resized /\ W >= 2 * margin /\ H >= 2 * margin)
        => \A i \in DOMAIN photos :
              InRange(photos[i].baseX, W) /\ InRange(photos[i].baseY, H)

\* a pass that followed a change of mode found a re-positioned particle outside and
\* clamped it onto the boundary
C1_Witness ==
    /\ ~resized /\ W >= 2 * margin /\ H >= 2 * margin
    /\ isMobile = mouseTracking      \* the mode is no longer the one at construction
    /\ \E i \in DOMAIN photos :
          /\ lastPass[i].x.out
          /\ lastPass[i].x.adv < margin
          /\ photos[i].baseX = margin
          /\ InRange(photos[i].baseY, H)

\* C2 as stated: once destroy() has removed the container, no animate pass runs again.
C2_NoPassAfterDestroy == [][~attached => ~AnimateStep]_vars

\* C3 as stated: once destroy() has run, a resize of the window changes neither
\* isMobile nor any particle's base position.
C3_ResizeIgnoredAfterDestroy ==
    [][(~attached /\ <<W, H>>' # <<W, H>>)
          => /\ isMobile' = isMobile
             /\ \A i \in DOMAIN photos :
                   photos'[i].baseX = photos[i].baseX /\ photos'[i].baseY = photos[i].baseY]_vars

\* C4: at most one frame callback is pending at any time; resume() on a running
\* gallery changes nothing; resume() on a paused gallery leaves exactly one pending.
C4_NoDuplicateLoop ==
    /\ [](Cardinality(pending) <= 1)
    /\ [](rafId # Null => ~ENABLED <<resume>>_vars)
    /\ [][(rafId = Null /\ rafId' # Null) => (restarted' /\ pending' = {rafId'})]_vars

\* a paused gallery was resumed and has its one callback pending
C4_Witness == restarted /\ rafId # Null /\ pending = {rafId} /\ rafCounter >= 3

\* C5: while the gallery is paused no frame callback is pending, the only step that
\* runs an animate pass is resume(), and pause() changes nothing.
C5_PauseStops ==
    /\ [](rafId = Null => pending = {})
    /\ [][(rafId = Null /\ AnimateStep) => (restarted' /\ rafId' # Null)]_vars
    /\ [](rafId = Null => ~ENABLED <<pause>>_vars)

\* a running gallery that had run frames was paused
C5_Witness == rafId = Null /\ attached /\ rafCounter >= 2 /\ Len(photos) > 0

\* C6: in every state there are min(count, number of images) particles and
\* particle i (0-based) shows images[i mod number of images].
C6_ParticleCount ==
    /\ Len(photos) = Min(count, Len(images))
    /\ \A i \in DOMAIN photos : photos[i].img = images[((i - 1) % Len(images)) + 1]

\* two particles from a two-image list with the default count, after frames, a
\* resize, a pause and a style update
C6_Witness ==
    /\ Len(images) = 2 /\ count = DefaultCount /\ Len(photos) = 2
    /\ photos[2].img = images[2]
    /\ rafCounter = MaxFrames /\ rafId = Null /\ opacity # DefaultOpacity /\ resized

\* C7 as stated: every rendered position is a number.
C7_FinalDefined ==
    \A i \in DOMAIN photos : photos[i].finalX # NaN /\ photos[i].finalY # NaN

\* the advanced coordinate pos + vel lies outside [margin, dim - margin]
Outside(pos, vel, dim) == pos + vel < margin \/ pos + vel > dim - margin

\* in one pass a velocity component is inverted when the advanced coordinate is
\* outside, and kept otherwise
FlipsOnceWhenOutside ==
    \A i \in DOMAIN photos :
        /\ photos'[i].velocityX = IF Outside(photos[i].baseX, photos[i].velocityX, W)
                                     THEN 0 - photos[i].velocityX ELSE photos[i].velocityX
        /\ photos'[i].velocityY = IF Outside(photos[i].baseY, photos[i].velocityY, H)
                                     THEN 0 - photos[i].velocityY ELSE photos[i].velocityY
        /\ lastPass'[i].x.out = Outside(photos[i].baseX, photos[i].velocityX, W)
        /\ lastPass'[i].y.out = Outside(photos[i].baseY, photos[i].velocityY, H)

\* the last pass took the coordinate beyond a boundary it was moving towards
\* (a crossing by drift), at a speed the range can hold
DriftCrossing(axis, dim) ==
    /\ axis.out
    /\ \/ axis.adv < margin /\ axis.vel <= 0
       \/ axis.adv > dim - margin /\ axis.vel >= 0
    /\ Abs(axis.vel) <= dim - 2 * margin

\* C8 as stated: a pass inverts a velocity component exactly when the advanced
\* coordinate is outside the range, and the pass after one that inverted it (the
\* window not resized in between) does not invert it again.
C8_NoSecondFlip ==
    [][AnimateStep =>
          /\ FlipsOnceWhenOutside
          /\ \A i \in DOMAIN photos :
                /\ (~resized /\ lastPass[i].x.out) => ~lastPass'[i].x.out
                /\ (~resized /\ lastPass[i].y.out) => ~lastPass'[i].y.out]_vars

\* C8 amended: the second part holds when the inverted component was moving
\* outward through the boundary it went beyond and |velocity| <= dimension - 2 * margin.
C8_NoSecondFlipAfterDriftCrossing ==
    [][AnimateStep =>
          /\ FlipsOnceWhenOutside
          /\ \A i \in DOMAIN photos :
                /\ (~resized /\ DriftCrossing(lastPass[i].x, W)) => ~lastPass'[i].x.out
                /\ (~resized /\ DriftCrossing(lastPass[i].y, H)) => ~lastPass'[i].y.out]_vars

\* a particle drifted across a boundary in one pass, and the next pass, in the same
\* window, kept the inverted velocity
C8_Witness ==
    /\ ~resized /\ rafCounter >= 2
    /\ \E i \in DOMAIN photos :
          /\ ~lastPass[i].y.out
          /\ lastPass[i].y.adv - lastPass[i].y.vel = margin
          /\ lastPass[i].y.vel > 0
          /\ photos[i].velocityY = lastPass[i].y.vel

\* C9: a desktop pass leaves a particle at 300 px or more from the pointer where its
\* base position is, moves one nearer (and not on the pointer) away from the pointer
\* on each axis, and a mobile pass never moves a particle sideways.
C9_InfluenceShape ==
    [][AnimateStep =>
          \A i \in DOMAIN photos :
              LET p  == photos'[i]
                  dx == p.baseX - mouseX
                  dy == p.baseY - mouseY
                  d2 == dx * dx + dy * dy
              IN  /\ (~isMobile /\ d2 >= maxDistance * maxDistance)
                        => (p.finalX = p.baseX * Scale /\ p.finalY = p.baseY * Scale)
                  /\ (~isMobile /\ d2 > 0 /\ d2 < maxDistance * maxDistance)
                        => /\ p.finalX # NaN /\ p.finalY # NaN
                           /\ Sign(p.finalX - p.baseX * Scale) = Sign(dx)
                           /\ Sign(p.finalY - p.baseY * Scale) = Sign(dy)
                  /\ isMobile => p.finalX = p.baseX * Scale]_vars

\* a desktop pass has pushed a particle less than 300 px from the pointer away on both axes
C9_Witness ==
    /\ ~isMobile /\ ~resized
    /\ \E i \in DOMAIN photos :
          LET dx == photos[i].baseX - mouseX
              dy == photos[i].baseY - mouseY
          IN  /\ dx # 0 /\ dy # 0
              /\ dx * dx + dy * dy < maxDistance * maxDistance
              /\ photos[i].finalX # NaN
              /\ Sign(photos[i].finalX - photos[i].baseX * Scale) = Sign(dx)
              /\ Sign(photos[i].finalY - photos[i].baseY * Scale) = Sign(dy)

\* the fields of a particle that C10 calls its drift state
DriftState(p) == <<p.baseX, p.baseY, p.velocityX, p.velocityY, p.rotation>>

\* C10: two runs that see the same frames and resizes but different pointer and
\* scroll events agree on every particle's drift state, and a pointer or scroll
\* event changes nothing but the pointer or scroll position of its run.
C10_InfluenceKeepsDrift ==
    /\ [](\A i \in DOMAIN photos : DriftState(photos[i]) = DriftState(photosT[i]))
    /\ [][(inputVars' # inputVars \/ inputVarsT' # inputVarsT)
             => UNCHANGED <<photos, photosT, configVars, styleVars, windowVars, isMobile,
                            loopVars, attached, resizeListeners>>]_vars
    /\ [][mouseX' # mouseX \/ mouseY' # mouseY => scrollY' = scrollY]_vars
    /\ [][scrollY' # scrollY => (mouseX' = mouseX /\ mouseY' = mouseY)]_vars

\* a pass ran with the first run's pointer on a particle (its rendered position is
\* NaN) while the second run's pointer was still at the centre of the window
C10_Witness ==
    /\ mouseTracking /\ ~isMobile /\ ~resized /\ rafCounter >= 2
    /\ <<mouseXT, mouseYT>> = <<W \div 2, H \div 2>>
    /\ \E i \in DOMAIN photos :
          /\ photos[i].finalX = NaN
          /\ <<photos[i].baseX, photos[i].baseY>> = <<mouseX, mouseY>>

====
